---- MODULE Spec2Model ----
(***************************************************************************)
(* A model of pdf_question_extractor/extract_pdf_content.py: the image     *)
(* harvest, the page text collector, the question segmenter and the        *)
(* question assembler of PDFExtractor.extract_content, with the regular    *)
(* expressions of the helpers evaluated character by character.            *)
(*                                                                         *)
(* Text is a sequence of one-character strings.                            *)
(***************************************************************************)
EXTENDS Integers, Sequences, FiniteSets, TLC

VARIABLES
    doc,                \* fitz document: sequence of pages [text, images]
    vedantu_logo_hash,  \* self.vedantu_logo_hash (None when the logo file is absent)
    pc,                 \* position in extract_content
    page_number,        \* loop index of the two page loops (pages done so far)
    all_text,           \* the text blob
    all_images,         \* harvested images: sequence of [page, image]
    raw_questions,      \* question spans, after the split and the filter
    span_ends,          \* for each span, the offset in all_text where it ends
    q_index,            \* spans processed so far
    image_index,        \* the image cursor
    clean_text,         \* locals of the loop body
    current_page,
    question_images,
    option_images,
    questions_data,     \* the output records
    log,                \* per span assembled: the span and the cursor around step 3
    attached,           \* harvest indexes in the order they were attached
    t_in,               \* input of _clean_question_text (cleaning runs)
    t_out               \* results of applying it repeatedly

vars == <<doc, vedantu_logo_hash, pc, page_number, all_text, all_images,
          raw_questions, span_ends, q_index, image_index,
          clean_text, current_page, question_images, option_images,
          questions_data, log, attached, t_in, t_out>>

\* Python's None where a page number or an image path is expected; a page
\* number that is there is <<n>>
None == <<>>

Some(n) == <<n>>

\* self.vedantu_logo_hash when the logo file is absent
NO_LOGO_HASH == "None"

----------------------------------------------------------------------------
(* Characters *)

NL == "\n"

Digits == <<"0", "1", "2", "3", "4", "5", "6", "7", "8", "9">>

LowerLetters == <<"a", "b", "c", "d", "e", "f", "g", "h", "i", "j", "k", "l", "m",
                  "n", "o", "p", "q", "r", "s", "t", "u", "v", "w", "x", "y", "z">>

UpperLetters == <<"A", "B", "C", "D", "E", "F", "G", "H", "I", "J", "K", "L", "M",
                  "N", "O", "P", "Q", "R", "S", "T", "U", "V", "W", "X", "Y", "Z">>

DigitSet == {Digits[i] : i \in 1..10}

LowerSet == {LowerLetters[i] : i \in 1..26}

UpperOf == [c \in LowerSet |-> UpperLetters[CHOOSE i \in 1..26 : LowerLetters[i] = c]]

DigitValueOf == [c \in DigitSet |-> (CHOOSE i \in 1..10 : Digits[i] = c) - 1]

IsDigit(c) == c \in DigitSet

\* \s of the re module, and what str.split / str.strip treat as blank
IsSpace(c) == c \in {" ", NL, "\t", "\r"}

\* str.upper, one character
Upper(c) == IF c \in LowerSet THEN UpperOf[c] ELSE c

\* t[i] exists and is the character c
At(t, i, c) == i >= 1 /\ i <= Len(t) /\ t[i] = c

\* re.IGNORECASE comparison of t[i] with the pattern letter c
AtIC(t, i, c) == i >= 1 /\ i <= Len(t) /\ Upper(t[i]) = Upper(c)

\* the literal lit occurs in t at offset i (1-based)
LitAt(t, i, lit) ==
    /\ i >= 1
    /\ i + Len(lit) - 1 <= Len(t)
    /\ \A k \in 1..Len(lit) : t[i + k - 1] = lit[k]

LitAtIC(t, i, lit) ==
    /\ i >= 1
    /\ i + Len(lit) - 1 <= Len(t)
    /\ \A k \in 1..Len(lit) : Upper(t[i + k - 1]) = Upper(lit[k])

\* the first offset >= i of t whose character is not in the class In(_)
\* (Len(t) + 1 when there is none): where a greedy In* stops
SkipWhile(t, i, In(_)) ==
    CHOOSE j \in i..(Len(t) + 1) :
        /\ (j = Len(t) + 1 \/ ~In(t[j]))
        /\ \A k \in i..(j - 1) : In(t[k])

\* \s* from offset i
SkipSpaces(t, i) == IF i > Len(t) THEN i ELSE SkipWhile(t, i, IsSpace)

\* \d* from offset i
SkipDigits(t, i) == IF i > Len(t) THEN i ELSE SkipWhile(t, i, IsDigit)

Slice(t, a, b) == IF a > b THEN <<>> ELSE SubSeq(t, a, b)

\* str.strip()
Strip(t) ==
    LET a == SkipSpaces(t, 1) IN
    IF a > Len(t) THEN <<>>
    ELSE LET b == CHOOSE j \in a..Len(t) :
                      ~IsSpace(t[j]) /\ \A k \in (j + 1)..Len(t) : IsSpace(t[k])
         IN SubSeq(t, a, b)

\* ' '.join(text.split()) from offset i on: the words, one space between
RECURSIVE JoinSplit(_, _)
JoinSplit(t, i) ==
    LET a == SkipSpaces(t, i) IN
    IF a > Len(t) THEN <<>>
    ELSE LET b == SkipWhile(t, a, LAMBDA c : ~IsSpace(c))
             rest == JoinSplit(t, b)
         IN SubSeq(t, a, b - 1) \o (IF rest = <<>> THEN <<>> ELSE <<" ">> \o rest)

\* decimal digits of n, as str(n) writes them
RECURSIVE ToDec(_)
ToDec(n) ==
    IF n < 10 THEN <<Digits[n + 1]>>
    ELSE ToDec(n \div 10) \o <<Digits[(n % 10) + 1]>>

DigitValue(c) == DigitValueOf[c]

\* int(s) for a string of decimal digits
RECURSIVE FromDec(_)
FromDec(s) ==
    IF s = <<>> THEN 0
    ELSE 10 * FromDec(SubSeq(s, 1, Len(s) - 1)) + DigitValue(s[Len(s)])

----------------------------------------------------------------------------
(* _clean_question_text *)

ANS == <<"A", "n", "s">>
PAGE_TAG_OPEN == <<"-", "-", "-", "p", "a", "g", "e">>
PAGE_TAG_CLOSE == <<"-", "-", "-">>

\* Ans\.?\s*\[?[A-D]\]?  with re.IGNORECASE, anchored at offset i:
\* the offset just after the match, or 0 when there is none.  The optional
\* parts are greedy and no other choice of them lets the pattern match.
AnsMatchEnd(t, i) ==
    IF ~LitAtIC(t, i, ANS) THEN 0
    ELSE LET a == i + 3
             b == IF At(t, a, ".") THEN a + 1 ELSE a
             c == SkipSpaces(t, b)
             d == IF At(t, c, "[") THEN c + 1 ELSE c
         IN IF \E x \in {"A", "B", "C", "D"} : AtIC(t, d, x)
            THEN (IF At(t, d + 1, "]") THEN d + 2 ELSE d + 1)
            ELSE 0

\* ---page\d+---  anchored at offset i: the offset just after it, or 0
TagMatchEnd(t, i) ==
    IF ~LitAt(t, i, PAGE_TAG_OPEN) THEN 0
    ELSE LET a == i + 7
             b == SkipDigits(t, a)
         IN IF b > a /\ LitAt(t, b, PAGE_TAG_CLOSE) THEN b + 3 ELSE 0

\* the leftmost offset >= i at which the pattern MatchEnd matches, or 0
FirstMatch(t, i, MatchEnd(_, _)) ==
    IF \E j \in i..Len(t) : MatchEnd(t, j) # 0
    THEN CHOOSE j \in i..Len(t) :
             MatchEnd(t, j) # 0 /\ \A k \in i..(j - 1) : MatchEnd(t, k) = 0
    ELSE 0

\* re.sub(pattern, '', t) from offset i on: the leftmost non-overlapping
\* matches removed, in one pass
RECURSIVE SubAns(_, _)
SubAns(t, i) ==
    LET m == FirstMatch(t, i, AnsMatchEnd) IN
    IF m = 0 THEN Slice(t, i, Len(t))
    ELSE Slice(t, i, m - 1) \o SubAns(t, AnsMatchEnd(t, m))

RECURSIVE SubTag(_, _)
SubTag(t, i) ==
    LET m == FirstMatch(t, i, TagMatchEnd) IN
    IF m = 0 THEN Slice(t, i, Len(t))
    ELSE Slice(t, i, m - 1) \o SubTag(t, TagMatchEnd(t, m))

CleanQuestionText(t) ==
    LET no_ans == SubAns(t, 1)
        no_tag == SubTag(no_ans, 1)
    IN JoinSplit(no_tag, 1)

----------------------------------------------------------------------------
(* _extract_options *)

\* a character class one letter short: [A-C]
IsLabel_UpToC(c) == c \in {"A", "B", "C"}

IsLabel(c) == c \in {"A", "B", "C", "D"}

\* \[[A-D]\][^\[\]]*  anchored at offset i: the offset just after it, or 0
IsNoBracket(c) == c \notin {"[", "]"}

SkipNonBrackets(t, i) == IF i > Len(t) THEN i ELSE SkipWhile(t, i, IsNoBracket)

OptionMatchEnd(t, i) ==
    IF At(t, i, "[") /\ i + 2 <= Len(t) /\ IsLabel(t[i + 1]) /\ t[i + 2] = "]"
    THEN SkipNonBrackets(t, i + 3)
    ELSE 0

\* re.split(r'(\[[A-D]\][^\[\]]*)', t): the pieces between the matches and,
\* the group capturing, the matches themselves, in order
RECURSIVE OptionParts(_, _)
OptionParts(t, start) ==
    LET m == FirstMatch(t, start, OptionMatchEnd) IN
    IF m = 0 THEN <<Slice(t, start, Len(t))>>
    ELSE LET e == OptionMatchEnd(t, m) IN
         <<Slice(t, start, m - 1), Slice(t, m, e - 1)>> \o OptionParts(t, e)

IsNoNewline(c) == c # NL

\* (.*) from offset i: up to the end of the line
RestOfLine(t, i) ==
    IF i > Len(t) THEN <<>> ELSE Slice(t, i, SkipWhile(t, i, IsNoNewline) - 1)

\* the body of the loop over the parts
OptionOfPart(part) ==
    LET s == Strip(part) IN
    IF s = <<>> THEN <<>>
    ELSE IF Len(s) >= 3 /\ s[1] = "[" /\ IsLabel(s[2]) /\ s[3] = "]"
         THEN LET text == Strip(RestOfLine(s, 4)) IN
              IF text # <<>> THEN <<[label |-> s[2], text |-> text]>> ELSE <<>>
         ELSE <<>>

RECURSIVE OptionsOfParts(_)
OptionsOfParts(parts) ==
    IF parts = <<>> THEN <<>>
    ELSE OptionOfPart(Head(parts)) \o OptionsOfParts(Tail(parts))

ExtractOptions(question_text) == OptionsOfParts(OptionParts(question_text, 1))

----------------------------------------------------------------------------
(* _is_question_with_image, every pattern searched with re.IGNORECASE *)

\* stands for the one character U+2260 (not-equal sign)
NOT_EQUAL_SIGN == "!="

ComparisonSigns == {"=", NOT_EQUAL_SIGN, "<", ">"}

SEE == <<"s", "e", "e", " ">>
FIGURE_WORDS == {<<"f", "i", "g", "u", "r", "e">>,
                 <<"i", "m", "a", "g", "e">>,
                 <<"d", "i", "a", "g", "r", "a", "m">>}
BELOW == <<"b", "e", "l", "o", "w">>

\* \d+\s*[=<>]\s*\d+ : a sign with a digit before it and one after it,
\* blanks only in between
MatchesComparison(t) ==
    \E j \in 1..Len(t) :
        /\ t[j] \in ComparisonSigns
        /\ \E a \in 1..(j - 1) :
              IsDigit(t[a]) /\ \A k \in (a + 1)..(j - 1) : IsSpace(t[k])
        /\ LET b == SkipSpaces(t, j + 1) IN b <= Len(t) /\ IsDigit(t[b])

\* _\s*_\s*_
MatchesBlanks(t) ==
    \E i \in 1..Len(t) :
        /\ t[i] = "_"
        /\ LET j == SkipSpaces(t, i + 1) IN
           /\ At(t, j, "_")
           /\ At(t, SkipSpaces(t, j + 1), "_")

\* see (figure|image|diagram)
MatchesSee(t) ==
    \E i \in 1..Len(t) : \E w \in FIGURE_WORDS : LitAtIC(t, i, SEE \o w)

\* below\s*:?$  ($: at the end, or before a newline that ends the text)
MatchesBelow(t) ==
    \E i \in 1..Len(t) :
        /\ LitAtIC(t, i, BELOW)
        /\ LET j == SkipSpaces(t, i + 5) IN
           \/ j > Len(t)
           \/ /\ t[j] = ":"
              /\ (j = Len(t) \/ (j + 1 = Len(t) /\ t[j + 1] = NL))

IsQuestionWithImage(t) ==
    MatchesComparison(t) \/ MatchesBlanks(t) \/ MatchesSee(t) \/ MatchesBelow(t)

----------------------------------------------------------------------------
(* The document, and the two page loops of extract_content *)

VALID_IMAGE_EXTS == {"png", "jpg", "jpeg", "jpe"}

LOGO_HASH == "md5_logo"

\* _get_image_hash of an embedded image: the MD5 of its RGB pixels
GetImageHash(img) == img.hash

\* the path an image is saved at: page{p}_image{k}.{ext} under IMAGE_DIR
ImagePath(p, k, ext) == <<p, k, ext>>

\* _save_image: False when the file cannot be written
SaveImage(img) == img.writable

\* the inner loop over a page's images, from the k-th on
RECURSIVE HarvestImages(_, _, _, _)
HarvestImages(p, image_infos, k, logo) ==
    IF k > Len(image_infos) THEN <<>>
    ELSE LET img == image_infos[k]
             rest == HarvestImages(p, image_infos, k + 1, logo)
         IN IF img.ext \notin VALID_IMAGE_EXTS THEN rest
            ELSE IF logo # NO_LOGO_HASH /\ GetImageHash(img) = logo THEN rest
            ELSE IF SaveImage(img)
                 THEN <<[page |-> p, image |-> ImagePath(p, k, img.ext)]>> \o rest
                 ELSE rest

\* the page is skipped when its first image is the logo, whatever follows
ShouldSkipPage_AnyImageCount(text, image_infos, logo) ==
    IF text = <<>> /\ Len(image_infos) >= 1 /\ logo # NO_LOGO_HASH
    THEN GetImageHash(image_infos[1]) = logo
    ELSE FALSE

ShouldSkipPage(text, image_infos, logo) ==
    IF text = <<>> /\ Len(image_infos) = 1 /\ logo # NO_LOGO_HASH
    THEN GetImageHash(image_infos[1]) = logo
    ELSE FALSE

\* f"\n---page{p}---\n{text}"
PageEntry(p, text) ==
    <<NL>> \o PAGE_TAG_OPEN \o ToDec(p) \o PAGE_TAG_CLOSE \o <<NL>> \o text

----------------------------------------------------------------------------
(* The question segmenter *)

\* \d+\.\s anchored at offset i
NumberedAt(t, i) ==
    LET d == SkipDigits(t, i) IN
    /\ i >= 1 /\ d > i
    /\ At(t, d, ".")
    /\ d + 1 <= Len(t) /\ IsSpace(t[d + 1])

\* (?=\n\d+\.\s|\A\d+\.\s) matches (emptily) before offset i
QuestionStartsAt(t, i) ==
    \/ At(t, i, NL) /\ NumberedAt(t, i + 1)
    \/ i = 1 /\ NumberedAt(t, 1)

\* the next offset >= i where a question starts, or 0
NextQuestionStart(t, i) ==
    IF \E j \in i..Len(t) : QuestionStartsAt(t, j)
    THEN CHOOSE j \in i..Len(t) :
             QuestionStartsAt(t, j) /\ \A k \in i..(j - 1) : ~QuestionStartsAt(t, k)
    ELSE 0

\* re.split on the empty matches: the pieces as [from, to] offsets of t,
\* the piece before a match at the very start being the empty string
RECURSIVE SplitPieces(_, _, _)
SplitPieces(t, start, i) ==
    LET m == NextQuestionStart(t, i) IN
    IF m = 0 THEN <<[from |-> start, to |-> Len(t)]>>
    ELSE <<[from |-> start, to |-> m - 1]>> \o SplitPieces(t, m, m + 1)

\* the list comprehension: keep the pieces that, stripped, start with a number
RECURSIVE KeepNumbered(_, _)
KeepNumbered(t, pieces) ==
    IF pieces = <<>> THEN <<>>
    ELSE LET p == Head(pieces)
             q == Strip(Slice(t, p.from, p.to))
         IN (IF NumberedAt(q, 1) THEN <<[text |-> q, end |-> p.to]>> ELSE <<>>)
            \o KeepNumbered(t, Tail(pieces))

RawQuestions(t) == KeepNumbered(t, SplitPieces(t, 1, 1))

----------------------------------------------------------------------------
(* The question assembler: the body of the loop over raw_questions *)

CLASS == <<"C", "L", "A", "S", "S">>
SECTION == <<"S", "E", "C", "T", "I", "O", "N">>

\* lit in t.upper(), startswith included, for a literal in upper case
UpperContains(t, lit) == \E i \in 1..Len(t) : LitAtIC(t, i, lit)

UpperStartsWith(t, lit) == LitAtIC(t, 1, lit)

\* the two `continue`s at the head of the loop body
ShouldSkipQuestion(q_text) ==
    \/ UpperStartsWith(q_text, CLASS)
    \/ UpperContains(q_text, SECTION)
    \/ ~(LET d == SkipDigits(q_text, 1) IN d > 1 /\ At(q_text, d, "."))

\* re.search(r'---page(\d+)---', q_text): the first tag of the span
FirstTagAt(q_text) ==
    IF \E i \in 1..Len(q_text) : TagMatchEnd(q_text, i) # 0
    THEN CHOOSE i \in 1..Len(q_text) :
             /\ TagMatchEnd(q_text, i) # 0
             /\ \A j \in 1..(i - 1) : TagMatchEnd(q_text, j) = 0
    ELSE 0

TagNumber(t, i) == FromDec(Slice(t, i + 7, TagMatchEnd(t, i) - 4))

CurrentPage(q_text) ==
    LET i == FirstTagAt(q_text) IN
    IF i = 0 THEN None ELSE Some(TagNumber(q_text, i))

\* truth value of current_page in `... or current_page`
Truthy(page) == page # None /\ page[1] # 0

\* harvest indexes of the images of a page, in harvest order
PageImageIndexes(images, page) ==
    LET S == {i \in 1..Len(images) : page # None /\ images[i].page = page[1]}
        RECURSIVE Sorted(_, _)
        Sorted(from, left) ==
            IF left = {} THEN <<>>
            ELSE LET m == CHOOSE x \in left : \A y \in left : x <= y IN
                 <<m>> \o Sorted(m + 1, left \ {m})
    IN Sorted(1, S)

\* step 3 where the cursor branch takes the image and leaves the cursor
PrimaryStep_CursorNotAdvanced(index, images, text, page) ==
    IF index < Len(images)
    THEN IF IsQuestionWithImage(text) \/ Truthy(page)
         THEN LET page_images == PageImageIndexes(images, page) IN
              IF page_images # <<>>
              THEN [taken |-> page_images, index |-> index + Len(page_images)]
              ELSE [taken |-> <<>>, index |-> index]
         ELSE [taken |-> <<index + 1>>, index |-> index]
    ELSE [taken |-> <<>>, index |-> index]

\* step 3 where the page branch advances the cursor by one, not by the number
\* of images taken
PrimaryStep_AdvancesByOne(index, images, text, page) ==
    IF index < Len(images)
    THEN IF IsQuestionWithImage(text) \/ Truthy(page)
         THEN LET page_images == PageImageIndexes(images, page) IN
              IF page_images # <<>>
              THEN [taken |-> page_images, index |-> index + 1]
              ELSE [taken |-> <<>>, index |-> index]
         ELSE [taken |-> <<index + 1>>, index |-> index + 1]
    ELSE [taken |-> <<>>, index |-> index]

\* step 3 where the cursor starts again from the first image at every question
PrimaryStep_CursorReset(index, images, text, page) ==
    IF 0 < Len(images)
    THEN IF IsQuestionWithImage(text) \/ Truthy(page)
         THEN LET page_images == PageImageIndexes(images, page) IN
              IF page_images # <<>>
              THEN [taken |-> page_images, index |-> Len(page_images)]
              ELSE [taken |-> <<>>, index |-> 0]
         ELSE [taken |-> <<1>>, index |-> 1]
    ELSE [taken |-> <<>>, index |-> 0]

\* step 3 of the loop body: the images taken as the question's, as harvest
\* indexes, and the cursor after it
PrimaryStep(index, images, text, page) ==
    IF index < Len(images)
    THEN IF IsQuestionWithImage(text) \/ Truthy(page)
         THEN LET page_images == PageImageIndexes(images, page) IN
              IF page_images # <<>>
              THEN [taken |-> page_images, index |-> index + Len(page_images)]
              ELSE [taken |-> <<>>, index |-> index]
         ELSE [taken |-> <<index + 1>>, index |-> index + 1]
    ELSE [taken |-> <<>>, index |-> index]

MAX_OPTION_IMAGES == 4

\* the condition of the while loop that collects option images
MoreOptionImages(index, images, options) ==
    index < Len(images) /\ Len(options) < MAX_OPTION_IMAGES

\* text options are extracted and attached whether or not option images were
QuestionObj_OptionsAlways(text, q_images, o_images, q_text) ==
    LET base == [question |-> text,
                 images |-> IF q_images # <<>> THEN q_images[1] ELSE None]
        with_images == IF o_images # <<>>
                       THEN base @@ [option_images |-> o_images] ELSE base
        options == ExtractOptions(q_text)
    IN IF options # <<>> THEN with_images @@ [options |-> options] ELSE with_images

\* question_obj, as it is appended
QuestionObj(text, q_images, o_images, q_text) ==
    LET base == [question |-> text,
                 images |-> IF q_images # <<>> THEN q_images[1] ELSE None]
    IN IF o_images # <<>>
       THEN base @@ [option_images |-> o_images]
       ELSE LET options == ExtractOptions(q_text) IN
            IF options # <<>> THEN base @@ [options |-> options] ELSE base

----------------------------------------------------------------------------
(* Documents *)

MaxPages == 2
MaxImgsPerPage == 3
MaxEmbedded == 2

\* ''
TEXT_EMPTY == <<>>

\* ' \n'
TEXT_BLANK ==
    <<" ", "\n">>

\* '1. A\n'
TEXT_ONE ==
    <<"1", ".", " ", "A", "\n">>

\* '1. A\n2. 3 > 2 Ans. [B]\n'
TEXT_TWO ==
    <<"1", ".", " ", "A", "\n", "2", ".", " ", "3", " ", ">", " ", "2", " ",
      "A", "n", "s", ".", " ", "[", "B", "]", "\n">>

\* '3. see figure\n'
TEXT_FIGURE ==
    <<"3", ".", " ", "s", "e", "e", " ", "f", "i", "g", "u", "r", "e", "\n">>

\* '1. What is 2+2? [A] 3 [B] 4 [C] 5 [D] 6'
TEXT_OPTIONS ==
    <<"1", ".", " ", "W", "h", "a", "t", " ", "i", "s", " ", "2", "+", "2",
      "?", " ", "[", "A", "]", " ", "3", " ", "[", "B", "]", " ", "4", " ",
      "[", "C", "]", " ", "5", " ", "[", "D", "]", " ", "6">>

\* '5. C\nSection 2\n'
TEXT_SECTION ==
    <<"5", ".", " ", "C", "\n", "S", "e", "c", "t", "i", "o", "n", " ", "2",
      "\n">>

PageTexts == {TEXT_EMPTY, TEXT_TWO, TEXT_FIGURE, TEXT_OPTIONS, TEXT_SECTION}

\* embedded images: a figure, the logo, a figure in a format that is not
\* accepted, a figure whose file cannot be written
FIGURE == [ext |-> "png", hash |-> "md5_figure", writable |-> TRUE]
LOGO == [ext |-> "jpeg", hash |-> LOGO_HASH, writable |-> TRUE]
FIGURE_JPX == [ext |-> "jpx", hash |-> "md5_figure", writable |-> TRUE]
FIGURE_UNSAVED == [ext |-> "png", hash |-> "md5_figure", writable |-> FALSE]


RECURSIVE SeqsUpTo(_, _)
SeqsUpTo(S, n) ==
    IF n = 0 THEN {<<>>}
    ELSE LET shorter == SeqsUpTo(S, n - 1) IN
         shorter \cup {Append(t, c) : t \in {u \in shorter : Len(u) = n - 1}, c \in S}

\* pages that carry figures only, each with one of the page texts
FigurePages ==
    {[text |-> t, images |-> [k \in 1..n |-> FIGURE]] :
        t \in PageTexts, n \in 0..MaxImgsPerPage}

\* pages that are blank or carry one question, with figures and logos in
\* any order, or with one figure that is not harvested
MixedPages ==
    {[text |-> t, images |-> imgs] :
        t \in {TEXT_EMPTY, TEXT_BLANK, TEXT_ONE},
        imgs \in SeqsUpTo({FIGURE, LOGO}, MaxEmbedded)
                   \cup {<<FIGURE_JPX>>, <<FIGURE_UNSAVED>>}}

\* the state at the entry of extract_content, before fitz.open
Start(pages, logo_hashes) ==
    /\ doc \in SeqsUpTo(pages, MaxPages)
    /\ vedantu_logo_hash \in logo_hashes
    /\ pc = "harvest"
    /\ page_number = 0
    /\ all_text = <<>>
    /\ all_images = <<>>
    /\ raw_questions = <<>>
    /\ span_ends = <<>>
    /\ q_index = 0
    /\ image_index = 0
    /\ clean_text = <<>>
    /\ current_page = None
    /\ question_images = <<>>
    /\ option_images = <<>>
    /\ questions_data = <<>>
    /\ log = <<>>
    /\ attached = <<>>
    /\ t_in = <<>>
    /\ t_out = <<>>

\* the logo file is there; no page carries the logo
Init == Start(FigurePages, {LOGO_HASH})

\* the logo file is there or not
InitPages == Start(MixedPages, {NO_LOGO_HASH, LOGO_HASH})

----------------------------------------------------------------------------
(* extract_content *)

\* one iteration of the first page loop
HarvestPage ==
    /\ pc = "harvest"
    /\ page_number < Len(doc)
    /\ all_images' = all_images \o
          HarvestImages(page_number + 1, doc[page_number + 1].images, 1,
                        vedantu_logo_hash)
    /\ page_number' = page_number + 1
    /\ UNCHANGED <<doc, vedantu_logo_hash, pc, all_text, raw_questions, span_ends,
                   q_index, image_index, clean_text, current_page,
                   question_images, option_images, questions_data, log,
                   attached, t_in, t_out>>

\* the first page loop ends
HarvestDone ==
    /\ pc = "harvest"
    /\ page_number = Len(doc)
    /\ pc' = "collect"
    /\ page_number' = 0
    /\ UNCHANGED <<doc, vedantu_logo_hash, all_text, all_images, raw_questions,
                   span_ends, q_index, image_index, clean_text, current_page,
                   question_images, option_images, questions_data, log,
                   attached, t_in, t_out>>

\* one iteration of the second page loop
CollectPage ==
    /\ pc = "collect"
    /\ page_number < Len(doc)
    /\ \E text \in {Strip(doc[page_number + 1].text)} :
          all_text' =
            IF ShouldSkipPage(text, doc[page_number + 1].images, vedantu_logo_hash)
            THEN all_text
            ELSE all_text \o PageEntry(page_number + 1, text)
    /\ page_number' = page_number + 1
    /\ UNCHANGED <<doc, vedantu_logo_hash, pc, all_images, raw_questions,
                   span_ends, q_index, image_index, clean_text, current_page,
                   question_images, option_images, questions_data, log,
                   attached, t_in, t_out>>

\* the split of the blob into question spans, and image_index = 0
SplitQuestions ==
    /\ pc = "collect"
    /\ page_number = Len(doc)
    /\ \E spans \in {RawQuestions(all_text)} :
          /\ raw_questions' = [i \in 1..Len(spans) |-> spans[i].text]
          /\ span_ends' = [i \in 1..Len(spans) |-> spans[i].end]
    /\ image_index' = 0
    /\ q_index' = 0
    /\ pc' = "question"
    /\ UNCHANGED <<doc, vedantu_logo_hash, page_number, all_text, all_images,
                   clean_text, current_page, question_images, option_images,
                   questions_data, log, attached, t_in, t_out>>

\* a span dropped at the head of the loop body
SkipQuestion ==
    /\ pc = "question"
    /\ q_index < Len(raw_questions)
    /\ ShouldSkipQuestion(raw_questions[q_index + 1])
    /\ q_index' = q_index + 1
    /\ UNCHANGED <<doc, vedantu_logo_hash, pc, page_number, all_text, all_images,
                   raw_questions, span_ends, image_index, clean_text,
                   current_page, question_images, option_images, questions_data,
                   log, attached, t_in, t_out>>

\* steps 1 to 3: clean the text, recover the page, take the question's images
PrimaryImages ==
    /\ pc = "question"
    /\ q_index < Len(raw_questions)
    /\ ~ShouldSkipQuestion(raw_questions[q_index + 1])
    /\ \E q_text \in {raw_questions[q_index + 1]} :
       \E text \in {CleanQuestionText(q_text)} :
       \E page \in {CurrentPage(q_text)} :
       \E step \in {PrimaryStep(image_index, all_images, text, page)} :
          /\ clean_text' = text
          /\ current_page' = page
          /\ question_images' =
                [k \in 1..Len(step.taken) |-> all_images[step.taken[k]].image]
          /\ image_index' = step.index
          /\ attached' = attached \o step.taken
          /\ log' = Append(log, [q_text |-> q_text,
                                 text |-> text,
                                 end |-> span_ends[q_index + 1],
                                 page |-> page,
                                 before |-> image_index,
                                 after |-> step.index,
                                 taken |-> step.taken])
    /\ option_images' = <<>>
    /\ pc' = "options"
    /\ UNCHANGED <<doc, vedantu_logo_hash, page_number, all_text, all_images,
                   raw_questions, span_ends, q_index, questions_data, t_in, t_out>>

\* one iteration of the while loop that collects option images
OptionImage ==
    /\ pc = "options"
    /\ MoreOptionImages(image_index, all_images, option_images)
    /\ option_images' = Append(option_images, all_images[image_index + 1].image)
    /\ attached' = Append(attached, image_index + 1)
    /\ image_index' = image_index + 1
    /\ UNCHANGED <<doc, vedantu_logo_hash, pc, page_number, all_text, all_images,
                   raw_questions, span_ends, q_index, clean_text, current_page,
                   question_images, questions_data, log, t_in, t_out>>

\* the while loop ends: the record is built and appended
AppendQuestion ==
    /\ pc = "options"
    /\ ~MoreOptionImages(image_index, all_images, option_images)
    /\ questions_data' =
          Append(questions_data,
                 QuestionObj(clean_text, question_images, option_images,
                             raw_questions[q_index + 1]))
    /\ q_index' = q_index + 1
    /\ clean_text' = <<>>
    /\ current_page' = None
    /\ question_images' = <<>>
    /\ option_images' = <<>>
    /\ pc' = "question"
    /\ UNCHANGED <<doc, vedantu_logo_hash, page_number, all_text, all_images,
                   raw_questions, span_ends, image_index, log, attached,
                   t_in, t_out>>

\* return questions_data
Return ==
    /\ pc = "question"
    /\ q_index = Len(raw_questions)
    /\ pc' = "done"
    /\ UNCHANGED <<doc, vedantu_logo_hash, page_number, all_text, all_images,
                   raw_questions, span_ends, q_index, image_index, clean_text,
                   current_page, question_images, option_images, questions_data,
                   log, attached, t_in, t_out>>

Next ==
    \/ HarvestPage
    \/ HarvestDone
    \/ CollectPage
    \/ SplitQuestions
    \/ SkipQuestion
    \/ PrimaryImages
    \/ OptionImage
    \/ AppendQuestion
    \/ Return

Spec == Init /\ [][Next]_vars

\* the two page loops alone, over pages with any embedded images
NextPages == HarvestPage \/ HarvestDone \/ CollectPage

SpecPages == InitPages /\ [][NextPages]_vars

----------------------------------------------------------------------------
(* Cleaning runs: _clean_question_text applied to a text, then to its result *)

MaxCleanLen == 8

CleanAlphabet == {"a", "n", "s", " "}

Idle ==
    /\ doc = <<>> /\ vedantu_logo_hash = NO_LOGO_HASH /\ pc = "clean" /\ page_number = 0
    /\ all_text = <<>> /\ all_images = <<>> /\ raw_questions = <<>>
    /\ span_ends = <<>> /\ q_index = 0 /\ image_index = 0
    /\ clean_text = <<>> /\ current_page = None /\ question_images = <<>>
    /\ option_images = <<>> /\ questions_data = <<>> /\ log = <<>>
    /\ attached = <<>>

InitClean ==
    /\ Idle
    /\ t_in \in SeqsUpTo(CleanAlphabet, MaxCleanLen)
    /\ t_out = <<>>

CleanFirst ==
    /\ pc = "clean" /\ t_out = <<>>
    /\ t_out' = <<CleanQuestionText(t_in)>>
    /\ UNCHANGED <<doc, vedantu_logo_hash, pc, page_number, all_text, all_images,
                   raw_questions, span_ends, q_index, image_index,
                   clean_text, current_page, question_images, option_images,
                   questions_data, log, attached, t_in>>

CleanAgain ==
    /\ pc = "clean" /\ Len(t_out) = 1
    /\ t_out' = Append(t_out, CleanQuestionText(t_out[1]))
    /\ UNCHANGED <<doc, vedantu_logo_hash, pc, page_number, all_text, all_images,
                   raw_questions, span_ends, q_index, image_index,
                   clean_text, current_page, question_images, option_images,
                   questions_data, log, attached, t_in>>

NextClean == CleanFirst \/ CleanAgain

SpecClean == InitClean /\ [][NextClean]_vars

\* C8: cleaning is idempotent: cleaning already-cleaned text yields the
\* same text, for every input text.
C8_CleanIdempotent == Len(t_out) = 2 => t_out[2] = t_out[1]

----------------------------------------------------------------------------
(* What the properties below speak of *)

\* the span contains a page tag
ContainsTag(t) == \E i \in 1..Len(t) : TagMatchEnd(t, i) # 0

\* offsets of the page tags of the blob that start at or before offset e
TagsUpTo(t, e) == {i \in 1..e : TagMatchEnd(t, i) # 0}

\* the page named by the last tag that precedes or lies within a span that
\* ends at offset e of the blob
LastTagPage(t, e) ==
    LET tags == TagsUpTo(t, e) IN
    IF tags = {} THEN None
    ELSE Some(TagNumber(t, CHOOSE i \in tags : \A j \in tags : j <= i))

\* harvest indexes of the images harvested from page p
HarvestedOn(p) == {i \in 1..Len(all_images) : all_images[i].page = p}

FirstOf(S) == CHOOSE i \in S : \A j \in S : i <= j

HasField(r, f) == f \in DOMAIN r

\* step 3 has just run for the newest entry of the log
AfterStep3 == pc = "options" /\ option_images = <<>>

LastLog == log[Len(log)]

\* the skip condition as the collector is described
BlankLogoPage(p) ==
    /\ Len(doc[p].images) = 1
    /\ vedantu_logo_hash # NO_LOGO_HASH
    /\ doc[p].images[1].hash = vedantu_logo_hash
    /\ Strip(doc[p].text) = <<>>

\* the page numbers of the tags of the blob, in blob order
TagPages(t) ==
    LET tags == TagsUpTo(t, Len(t)) IN
    [k \in 1..Cardinality(tags) |->
        TagNumber(t, CHOOSE i \in tags : Cardinality({j \in tags : j <= i}) = k)]

\* the pages 1..n that are not blank logo pages, in page order
RECURSIVE Survivors(_)
Survivors(n) ==
    IF n = 0 THEN <<>>
    ELSE Survivors(n - 1) \o (IF BlankLogoPage(n) THEN <<>> ELSE <<n>>)

\* tag and trimmed text of the surviving pages among 1..n
RECURSIVE SurvivorsText(_)
SurvivorsText(n) ==
    IF n = 0 THEN <<>>
    ELSE SurvivorsText(n - 1) \o
         (IF BlankLogoPage(n) THEN <<>> ELSE PageEntry(n, Strip(doc[n].text)))

\* pages the first loop has been through
Harvested == IF pc = "harvest" THEN page_number ELSE Len(doc)

\* pages the second loop has been through
Collected ==
    IF pc = "harvest" THEN 0 ELSE IF pc = "collect" THEN page_number ELSE Len(doc)

----------------------------------------------------------------------------
(* Properties *)

\* C1: during the whole assembly pass the image cursor never exceeds the
\* length of the harvested-image list: 0 <= image_index <= len(all_images)
\* in every reachable state, right after the page-based step too.
\* The cursor is also non-decreasing from one step to the next: over each
\* step 3, from each span to the next, and up to the present.
C1_CursorWithinList ==
    /\ image_index >= 0 /\ image_index <= Len(all_images)
    /\ \A i \in 1..Len(log) :
           /\ log[i].before <= log[i].after
           /\ log[i].after <= Len(all_images)
           /\ i > 1 => log[i - 1].after <= log[i].before
           /\ log[i].after <= image_index

\* C2: every harvested image is attached to at most one slot (question image
\* candidate or option image), and images are attached in harvest order: the
\* harvest indexes, in the order they were attached, strictly increase.
C2_AttachedOnceInHarvestOrder ==
    \A i, j \in 1..Len(attached) : i < j => attached[i] < attached[j]

\* C3: no record has both `options` and `option_images`; a record with option
\* images has a non-empty list of them and no text options.
C3_OptionsOrOptionImages ==
    \A i \in 1..Len(questions_data) :
        LET r == questions_data[i] IN
        /\ ~(HasField(r, "options") /\ HasField(r, "option_images"))
        /\ HasField(r, "option_images") => r.option_images # <<>>

\* a record with option images was appended for a span that has text options
C3_Witness ==
    \E i \in 1..Len(questions_data) :
        /\ HasField(questions_data[i], "option_images")
        /\ ExtractOptions(log[i].q_text) # <<>>

\* C4: a page puts no tag and no text into the blob iff its trimmed text is
\* empty, it has exactly one image, a logo hash exists and the image's hash
\* equals it; every other page puts exactly one tag, in page order, before
\* its trimmed text; and no image is harvested from a page skipped so.
C4_SkippedIffBlankLogoPage ==
    /\ TagPages(all_text) = Survivors(Collected)
    /\ all_text = SurvivorsText(Collected)
    /\ \A p \in 1..Harvested : BlankLogoPage(p) => HarvestedOn(p) = {}

\* both loops are done on a document whose first page is a blank logo page
\* and whose second page has no text and no image
C4_Witness ==
    /\ pc = "collect" /\ page_number = Len(doc) /\ Len(doc) = 2
    /\ BlankLogoPage(1)
    /\ doc[2].text = <<>> /\ doc[2].images = <<>>
    /\ TagPages(all_text) = <<2>>

\* the case of C5: the span has no page tag and the cursor has not reached
\* the end of the list
C5_Case(e) == ~ContainsTag(e.q_text) /\ e.before < Len(all_images)

\* what C5 says of such a span: step 3 takes exactly the image under the
\* cursor and advances the cursor by one
C5_TakesNext(e) == e.taken = <<e.before + 1>> /\ e.after = e.before + 1

\* C5 as stated: for every span without a page tag, met with the cursor not
\* at the end, step 3 takes exactly the next image under the cursor, it is the
\* record's image and the cursor advances by one, whether or not the cleaned
\* text matches the image-bearing heuristic.
C5_CursorFallback ==
    /\ AfterStep3 /\ C5_Case(LastLog) => C5_TakesNext(LastLog)
    /\ pc = "done" =>
         \A i \in 1..Len(questions_data) :
             C5_Case(log[i]) =>
                 questions_data[i].images = all_images[log[i].before + 1].image

\* C5 as amended: the same, for the spans whose cleaned text does not match
\* the image-bearing heuristic.
C5_CursorFallbackUnlessHeuristic ==
    /\ (AfterStep3 /\ C5_Case(LastLog) /\ ~IsQuestionWithImage(LastLog.text))
          => C5_TakesNext(LastLog)
    /\ pc = "done" =>
         \A i \in 1..Len(questions_data) :
             (C5_Case(log[i]) /\ ~IsQuestionWithImage(log[i].text)) =>
                 questions_data[i].images = all_images[log[i].before + 1].image

\* step 3 has run for a span without tag, not matching the heuristic, with
\* more than one image left
C5_Witness ==
    /\ AfterStep3 /\ C5_Case(LastLog) /\ ~IsQuestionWithImage(LastLog.text)
    /\ LastLog.before + 1 < Len(all_images)

\* the case of C6: the cleaned text matches the heuristic and exactly two
\* images were harvested from the recovered page
C6_Case(e) ==
    /\ IsQuestionWithImage(e.text)
    /\ e.page # None
    /\ Cardinality(HarvestedOn(e.page[1])) = 2

\* C6 as stated: for every such span the cursor has advanced by at least 2
\* when option-image collection begins, and the record's `images` is the
\* first, in harvest order, of the two images.
C6_FirstOfTwo ==
    /\ AfterStep3 /\ C6_Case(LastLog) => LastLog.after >= LastLog.before + 2
    /\ pc = "done" =>
         \A i \in 1..Len(questions_data) :
             C6_Case(log[i]) =>
                 questions_data[i].images =
                     all_images[FirstOf(HarvestedOn(log[i].page[1]))].image

\* C6 as amended: the same, for the spans met before the cursor has reached
\* the end of the harvested-image list.
C6_FirstOfTwoWhileImagesLeft ==
    /\ (AfterStep3 /\ C6_Case(LastLog) /\ LastLog.before < Len(all_images))
          => LastLog.after >= LastLog.before + 2
    /\ pc = "done" =>
         \A i \in 1..Len(questions_data) :
             (C6_Case(log[i]) /\ log[i].before < Len(all_images)) =>
                 questions_data[i].images =
                     all_images[FirstOf(HarvestedOn(log[i].page[1]))].image

\* the pass is done and a record was built for such a span, met with images
\* left, the two images of its page not being the ones under the cursor
C6_Witness ==
    /\ pc = "done"
    /\ \E i \in 1..Len(questions_data) :
          /\ C6_Case(log[i])
          /\ log[i].before < Len(all_images)
          /\ FirstOf(HarvestedOn(log[i].page[1])) > log[i].before + 1

\* '1. What is 2+2?'
STEM ==
    <<"1", ".", " ", "W", "h", "a", "t", " ", "i", "s", " ", "2", "+", "2",
      "?">>

FOUR_OPTIONS ==
    <<[label |-> "A", text |-> <<"3">>], [label |-> "B", text |-> <<"4">>],
      [label |-> "C", text |-> <<"5">>], [label |-> "D", text |-> <<"6">>]>>

\* the case of C7: no image was harvested and the span is
\* "1. What is 2+2? [A] 3 [B] 4 [C] 5 [D] 6"
C7_Case(i) == all_images = <<>> /\ log[i].q_text = TEXT_OPTIONS

\* C7 as stated: the span yields a record whose `question` is the text
\* without the option markup, "1. What is 2+2?", whose `images` is null,
\* which has no `option_images`, and whose `options` is A, B, C, D in that
\* order with their texts.
C7_OptionsScenario ==
    \A i \in 1..Len(questions_data) :
        C7_Case(i) =>
            questions_data[i] =
                [question |-> STEM, images |-> None, options |-> FOUR_OPTIONS]

\* C7 as amended: the record's `question` is the cleaned span, which keeps
\* the option markup: "1. What is 2+2? [A] 3 [B] 4 [C] 5 [D] 6".
C7_OptionsScenarioWholeSpan ==
    \A i \in 1..Len(questions_data) :
        C7_Case(i) =>
            questions_data[i] =
                [question |-> TEXT_OPTIONS, images |-> None,
                 options |-> FOUR_OPTIONS]

\* the span was assembled with no image harvested, as the only record
C7_Witness == Len(questions_data) = 1 /\ C7_Case(1) /\ pc = "done"

\* C9: the page recovered for a span is the number of the last page tag that
\* precedes or lies within the span in the blob, and is undefined only when
\* there is no such tag.
C9_PageOfTheQuestion ==
    \A i \in 1..Len(log) : log[i].page = LastTagPage(all_text, log[i].end)

\* C10: the records with `option_images` form a prefix of the output: once a
\* record is appended without them (the cursor being at or past the end of
\* the list after its step 3), no later record has `option_images` or a
\* non-null `images`, the cursor does not change again, and no record has
\* text `options` before that point.
C10_OptionImagesFormPrefix ==
    \A i \in 1..Len(questions_data) :
        /\ HasField(questions_data[i], "options")
              => ~HasField(questions_data[i], "option_images")
        /\ ~HasField(questions_data[i], "option_images") =>
              /\ log[i].after >= Len(all_images)
              /\ image_index = log[i].after
              /\ \A j \in (i + 1)..Len(log) :
                    log[j].before = log[i].after /\ log[j].after = log[i].after
              /\ \A j \in (i + 1)..Len(questions_data) :
                    /\ ~HasField(questions_data[j], "option_images")
                    /\ questions_data[j].images = None

\* a record with option images, then one without, then one with text options
C10_Witness ==
    /\ Len(questions_data) >= 3
    /\ HasField(questions_data[1], "option_images")
    /\ ~HasField(questions_data[2], "option_images")
    /\ HasField(questions_data[3], "options")

====
